---------------------------- MODULE Spec2Model ----------------------------
(***************************************************************************)
(* A model of parse.py, the WhatWeb log parser: a batch run that lists the *)
(* log files of a folder, parses each file as newline-delimited JSON,      *)
(* classifies the request chain and appends one CSV row per file.          *)
(*                                                                         *)
(* Text is modelled by TLA+ strings (Len, SubSeq and \o act on them as on  *)
(* sequences of characters).  A Python value is a record [t, v]: t is      *)
(* "str", "int", "arr" or "obj"; an object's v is the sequence of its      *)
(* <<key, value>> members in document order.                               *)
(***************************************************************************)
EXTENDS Integers, Sequences, FiniteSets, TLC

VARIABLES
    is_dir,          \* os.path.isdir(args.input_folder)
    folder,          \* the files of the input folder: file name -> text
    log_format,      \* args.log_format
    plugin_fields,   \* args.plugin_fields, the raw comma-separated string
    file_list,       \* the result of fetch_folder_and_files, in glob order
    k,               \* how many entries of file_list the main loop has taken
    output,          \* the text of args.output_file
    extracted_data,  \* the dict the last extract_url_data_from_json returned
    written,         \* per file processed: the path taken and the values written
    pc               \* "start", "run", "done", "exit" or "crashed"

vars == <<is_dir, folder, log_format, plugin_fields, file_list, k, output,
          extracted_data, written, pc>>

----------------------------------------------------------------------------
(* Bounds of the model.                                                    *)

\* The largest number of files in the input folder.
MaxFiles == 2

\* The longest request chain (records in one log file).
MaxChain == 2

----------------------------------------------------------------------------
(* Python's string methods.                                                *)

Whitespace == {" ", "\n", "\t", "\r"}

CharAt(s, i) == SubSeq(s, i, i)

StartsWith(s, p) == Len(s) >= Len(p) /\ SubSeq(s, 1, Len(p)) = p

EndsWith(s, p) == Len(s) >= Len(p) /\ SubSeq(s, Len(s) - Len(p) + 1, Len(s)) = p

\* The least member of a set of numbers, 0 for the empty set.
Least(at) == IF at = {} THEN 0 ELSE CHOOSE i \in at : \A j \in at : i <= j

\* s.find(p) + 1: the first position of p in s, 0 when there is none.
Find(s, p) ==
    Least({i \in 1..(Len(s) - Len(p) + 1) : SubSeq(s, i, i + Len(p) - 1) = p})

\* p in s
Contains(s, p) == Find(s, p) # 0

RECURSIVE RStrip(_, _)
RStrip(s, cs) ==
    IF Len(s) > 0 /\ CharAt(s, Len(s)) \in cs
    THEN RStrip(SubSeq(s, 1, Len(s) - 1), cs)
    ELSE s

RECURSIVE LStrip(_, _)
LStrip(s, cs) ==
    IF Len(s) > 0 /\ CharAt(s, 1) \in cs
    THEN LStrip(SubSeq(s, 2, Len(s)), cs)
    ELSE s

\* str.strip
Strip(s) == LStrip(RStrip(s, Whitespace), Whitespace)

\* s.split(sep): one more piece than there are separators.
RECURSIVE Split(_, _)
Split(s, sep) ==
    IF ~Contains(s, sep) THEN <<s>>
    ELSE <<SubSeq(s, 1, Find(s, sep) - 1)>>
         \o Split(SubSeq(s, Find(s, sep) + Len(sep), Len(s)), sep)

\* s.split(sep)[0]
Before(s, sep) == IF Contains(s, sep) THEN SubSeq(s, 1, Find(s, sep) - 1) ELSE s

\* s.split(sep)[-1]
RECURSIVE AfterLast(_, _)
AfterLast(s, sep) ==
    IF Contains(s, sep) THEN AfterLast(SubSeq(s, Find(s, sep) + Len(sep), Len(s)), sep) ELSE s

RECURSIVE Join(_, _)
Join(parts, sep) ==
    IF parts = <<>> THEN ""
    ELSE IF Len(parts) = 1 THEN parts[1]
    ELSE parts[1] \o sep \o Join(Tail(parts), sep)

Digit(d) == CharAt("0123456789", d + 1)

\* The decimal rendering of a natural number.
RECURSIVE IntStr(_)
IntStr(n) == IF n < 10 THEN Digit(n) ELSE IntStr(n \div 10) \o Digit(n % 10)

----------------------------------------------------------------------------
(* Python values and JSON documents.                                       *)

JS(s) == [t |-> "str", v |-> s]
JI(n) == [t |-> "int", v |-> n]
JA(items) == [t |-> "arr", v |-> items]
JO(members) == [t |-> "obj", v |-> members]

\* str(x), which is also what '%s' % x renders.
Str(x) == IF x.t = "int" THEN IntStr(x.v) ELSE x.v

\* bool(x)
Truthy(x) == IF x.t = "int" THEN x.v # 0 ELSE Len(x.v) > 0

\* key in d, for a dict d
HasKey(d, key) == d.t = "obj" /\ \E i \in DOMAIN d.v : d.v[i][1] = key

\* d[key]; a repeated key keeps its last value, as json.loads does.
Get(d, key) ==
    d.v[CHOOSE i \in DOMAIN d.v :
            d.v[i][1] = key /\ \A j \in DOMAIN d.v : d.v[j][1] = key => j <= i][2]

\* The text of a JSON document as WhatWeb logs it (no spaces between tokens).
RECURSIVE Dumps(_), DumpItems(_), DumpMembers(_)
Dumps(x) ==
    CASE x.t = "str" -> "\"" \o x.v \o "\""
      [] x.t = "int" -> IntStr(x.v)
      [] x.t = "arr" -> "[" \o DumpItems(x.v) \o "]"
      [] x.t = "obj" -> "{" \o DumpMembers(x.v) \o "}"
DumpItems(items) ==
    IF items = <<>> THEN ""
    ELSE IF Len(items) = 1 THEN Dumps(items[1])
    ELSE Dumps(items[1]) \o "," \o DumpItems(Tail(items))
DumpMembers(members) ==
    IF members = <<>> THEN ""
    ELSE LET m == "\"" \o members[1][1] \o "\":" \o Dumps(members[1][2])
         IN  IF Len(members) = 1 THEN m ELSE m \o "," \o DumpMembers(Tail(members))

----------------------------------------------------------------------------
(* The plugin table and the public-suffix split of a URL.                  *)

PLUGIN_FIELD_KEYS ==
    ("HTTPServer"       :> [key |-> "string", output_key |-> "server"]) @@
    ("IP"               :> [key |-> "string", output_key |-> "ip_address"]) @@
    ("RedirectLocation" :> [key |-> "string", output_key |-> "redirects_to"]) @@
    ("X-Powered-By"     :> [key |-> "string", output_key |-> "powered_by"]) @@
    ("PoweredBy"        :> [key |-> "string", output_key |-> "powered_by"]) @@
    ("Parked-Domain"    :> [key |-> "string", output_key |-> "is_parked"]) @@
    ("WWW-Authenticate" :> [key |-> "module", output_key |-> "is_auth"])

\* The entries of the public suffix list that the modelled hosts end in.
PublicSuffixes == {"com", "org", "uk", "co.uk"}

\* The host of a URL: the scheme, the path, the user info and the port dropped.
NetLoc(url) ==
    RStrip(Before(AfterLast(Before(Before(Before(
        IF Contains(url, "://") THEN SubSeq(url, Find(url, "://") + 3, Len(url)) ELSE url,
        "/"), "?"), "#"), "@"), ":"), {"."})

\* Where the longest public suffix of a host's labels starts: past the last
\* label when the host ends in none.
SuffixStart(labels) ==
    IF \E i \in DOMAIN labels : Join(SubSeq(labels, i, Len(labels)), ".") \in PublicSuffixes
    THEN Least({i \in DOMAIN labels :
                   Join(SubSeq(labels, i, Len(labels)), ".") \in PublicSuffixes})
    ELSE Len(labels) + 1

\* The labels of a host split where its public suffix starts.
SplitAt(labels, cut) ==
    [subdomain |-> Join(SubSeq(labels, 1, cut - 2), "."),
     domain    |-> IF cut = 1 THEN "" ELSE labels[cut - 1],
     suffix    |-> Join(SubSeq(labels, cut, Len(labels)), ".")]

\* The host is a dotted IPv4 address.
IsIPv4(labels) ==
    /\ Len(labels) = 4
    /\ \A i \in DOMAIN labels :
          /\ Len(labels[i]) > 0
          /\ \A j \in 1..Len(labels[i]) : Contains("0123456789", CharAt(labels[i], j))

\* The public-suffix split of a host's labels; an IP address is all domain.
SplitLabels(labels) ==
    IF IsIPv4(labels)
    THEN [subdomain |-> "", domain |-> Join(labels, "."), suffix |-> ""]
    ELSE SplitAt(labels, SuffixStart(labels))

\* tldextract.extract(url): the longest public suffix the host ends in, the
\* label before it (the registrable domain's name) and the labels before that.
TldExtract(url) == SplitLabels(Split(NetLoc(url), "."))

----------------------------------------------------------------------------
(* extract_url_data_from_json                                              *)

\* BaseStatus with the success test narrowed to the one code 200.
BaseStatus_Only200(status) ==
    IF Str(status) = "200" THEN JS("Valid")
    ELSE IF StartsWith(Str(status), "40") THEN JS("Forbidden - " \o Str(status))
    ELSE status

\* Lines 171-175: the status of the first record alone.
BaseStatus(status) ==
    IF StartsWith(Str(status), "20") THEN JS("Valid")
    ELSE IF StartsWith(Str(status), "40") THEN JS("Forbidden - " \o Str(status))
    ELSE status

\* Lines 185-186: the redirect ends at the https form of the target's domain.
IsHttpsUpgrade(redirects_to, target_tld) ==
    \/ redirects_to = "https://www." \o target_tld.domain \o "." \o target_tld.suffix
    \/ redirects_to = "https://" \o target_tld.domain \o "." \o target_tld.suffix

\* RedirectStatus with the 40x test made on the first record's status.
RedirectStatus_FirstRecord40x(first_status, redirect_status, redirects_to, target_tld) ==
    LET status == IF StartsWith(redirect_status, "20")
                  THEN IF IsHttpsUpgrade(redirects_to, target_tld)
                       THEN JS("Valid")
                       ELSE JS("Redirect - " \o Str(first_status))
                  ELSE JS(Str(first_status))
    IN  IF StartsWith(Str(first_status), "40")
        THEN JS("Forbidden - " \o Str(first_status))
        ELSE status

\* RedirectStatus with 'Redirect - ' followed by the last record's status.
RedirectStatus_LastRecordCode(first_status, redirect_status, redirects_to, target_tld) ==
    LET status == IF StartsWith(redirect_status, "20")
                  THEN IF IsHttpsUpgrade(redirects_to, target_tld)
                       THEN JS("Valid")
                       ELSE JS("Redirect - " \o redirect_status)
                  ELSE JS(Str(first_status))
    IN  IF StartsWith(redirect_status, "40")
        THEN JS("Forbidden - " \o redirect_status)
        ELSE status

\* Lines 180-193: the status of a chain of more than one record.
RedirectStatus(first_status, redirect_status, redirects_to, target_tld) ==
    LET status == IF StartsWith(redirect_status, "20")
                  THEN IF IsHttpsUpgrade(redirects_to, target_tld)
                       THEN JS("Valid")
                       ELSE JS("Redirect - " \o Str(first_status))
                  ELSE JS(Str(first_status))
    IN  IF StartsWith(redirect_status, "40")
        THEN JS("Forbidden - " \o redirect_status)
        ELSE status

\* Line 159 and line 200: the fields the loop visits, in order.
StripAll(parts) == [i \in DOMAIN parts |-> Strip(parts[i])]

FieldsToVisit(fields_arg) ==
    StripAll(Split(fields_arg, ",")) \o <<"Parked-Domain", "WWW-Authenticate">>

\* The list line 203 takes its value from, for a field whose subscripts exist.
FieldValues(blob, field) ==
    Get(Get(Get(blob, "plugins"), field), PLUGIN_FIELD_KEYS[field].key)

\* Line 203 succeeds: every subscript of
\* json_blobs[0]['plugins'][field][PLUGIN_FIELD_KEYS[field]['key']][0] exists.
FieldFound(blob, field) ==
    /\ HasKey(blob, "plugins")
    /\ HasKey(Get(blob, "plugins"), field)
    /\ field \in DOMAIN PLUGIN_FIELD_KEYS
    /\ HasKey(Get(Get(blob, "plugins"), field), PLUGIN_FIELD_KEYS[field].key)
    /\ FieldValues(blob, field).t \in {"arr", "str"}
    /\ Len(FieldValues(blob, field).v) > 0

\* Line 203: the value read (the first item of a list, the first character of a
\* string).
FieldValue(blob, field) ==
    IF FieldValues(blob, field).t = "arr"
    THEN FieldValues(blob, field).v[1]
    ELSE JS(CharAt(FieldValues(blob, field).v, 1))

\* Lines 205-214: what a value read does to acc = [data, status, notes].
ApplyField(acc, field, field_value) ==
    IF field = "Parked-Domain" /\ Truthy(field_value)
    THEN [acc EXCEPT !.status = JS("Parked"), !.notes = field_value]
    ELSE IF field = "WWW-Authenticate" /\ Truthy(field_value)
    THEN [acc EXCEPT !.status = JS("Auth Required"), !.notes = field_value]
    ELSE [acc EXCEPT !.data = (PLUGIN_FIELD_KEYS[field].output_key :> field_value) @@ acc.data]

\* Lines 202-216: one turn of the loop; a failed subscript changes nothing.
PluginStep(acc, blob, field) ==
    IF FieldFound(blob, field) THEN ApplyField(acc, field, FieldValue(blob, field)) ELSE acc

\* Lines 201-216: the loop over the fields.
RECURSIVE PluginLoop(_, _, _)
PluginLoop(acc, blob, fields) ==
    IF fields = <<>> THEN acc
    ELSE PluginLoop(PluginStep(acc, blob, fields[1]), blob, Tail(fields))

\* A record lines 163-165 and 179-181 read without an exception: a dict with
\* a string 'target' (tldextract and rstrip take strings) and an 'http_status'.
Readable(blob) ==
    /\ HasKey(blob, "target")
    /\ Get(blob, "target").t = "str"
    /\ HasKey(blob, "http_status")

\* Lines 163-181 raise (KeyError, TypeError, AttributeError): nothing catches it.
ExtractRaises(json_blobs) ==
    \/ ~Readable(json_blobs[1])
    \/ Len(json_blobs) > 1 /\ ~Readable(json_blobs[Len(json_blobs)])

EmptyDict == [key \in {} |-> JS("")]

\* json_blobs[-1]
LastOf(json_blobs) == json_blobs[Len(json_blobs)]

\* Line 179
RedirectsTo(json_blobs) == RStrip(Get(LastOf(json_blobs), "target").v, {"/"})

\* Lines 165-193: the status before the plugin fields are read.
ChainStatus(json_blobs) ==
    IF Len(json_blobs) > 1
    THEN RedirectStatus(Get(json_blobs[1], "http_status"),
                        Str(Get(LastOf(json_blobs), "http_status")),
                        RedirectsTo(json_blobs),
                        TldExtract(Get(json_blobs[1], "target").v))
    ELSE BaseStatus(Get(json_blobs[1], "http_status"))

\* Lines 160 and 196: the dict before the plugin fields are read.
ChainData(json_blobs) ==
    IF Len(json_blobs) > 1
    THEN ("redirects_to" :> JS(RedirectsTo(json_blobs)))
    ELSE EmptyDict

\* Lines 218-222
Finalize(target, acc) ==
    ("target" :> target) @@ ("status" :> acc.status) @@ ("notes" :> acc.notes) @@ acc.data

\* Lines 158-224, for a chain on which ExtractRaises is false: the dict returned.
extract_url_data_from_json(json_blobs, fields_arg) ==
    Finalize(Get(json_blobs[1], "target"),
             PluginLoop([data   |-> ChainData(json_blobs),
                         status |-> ChainStatus(json_blobs),
                         notes  |-> JS("")],
                        json_blobs[1], FieldsToVisit(fields_arg)))

----------------------------------------------------------------------------
(* The log files the model runs on.                                        *)

\* A plugin entry {name: {kind: [value]}} of a record's 'plugins'.
Member(name, kind, value) == <<name, JO(<< <<kind, JA(<<JS(value)>>)>> >>)>>

\* A request record as WhatWeb logs it.
Record(target, http_status, plugins) ==
    JO(<< <<"target", JS(target)>>, <<"http_status", http_status>>,
          <<"plugins", JO(plugins)>> >>)

ParkedOpts ==
    {<<>>, <<Member("Parked-Domain", "string", "true")>>,
           <<Member("Parked-Domain", "string", "")>>}
AuthOpts == {<<>>, <<Member("WWW-Authenticate", "module", "Basic")>>}
ServerOpts == {<<>>, <<Member("HTTPServer", "string", "nginx")>>}
LocationOpts == {<<>>, <<Member("RedirectLocation", "string", "https://example.com/")>>}

PluginSets ==
    {s \o l \o p \o a : s \in ServerOpts, l \in LocationOpts, p \in ParkedOpts, a \in AuthOpts}

\* Plugin entries that miss the value kind the table names, hold no value, or
\* share an output column.
OddPluginSets ==
    {<< <<"Parked-Domain", JO(<< <<"string", JA(<<>>)>> >>)>> >>,
     <<Member("WWW-Authenticate", "string", "Basic")>>,
     <<Member("X-Powered-By", "string", "PHP/5.4"), Member("PoweredBy", "string", "WordPress"),
       Member("IP", "string", "192.0.2.7")>>}

FirstStatuses ==
    {JI(200), JS("204"), JI(226), JI(301), JI(404), JS("")}
LastStatuses == {JI(200), JI(404), JS("503")}

\* <<the target scanned, the target the redirect chain ends at>>
TargetPairs ==
    {<<"http://example.com", "https://example.com/">>,
     <<"http://example.com", "https://www.example.com">>,
     <<"http://example.com", "https://example.com/login">>,
     <<"http://shop.example.co.uk", "https://example.co.uk//">>}

\* A hop between the first and the last record of a chain.
Hop == Record("http://www.example.com/", JI(302), <<>>)

Hops(n) == [i \in 1..n |-> Hop]

SingleChains ==
    {<<Record(t, s, p)>> :
        t \in {"http://example.com"}, s \in FirstStatuses, p \in PluginSets \cup OddPluginSets}

RedirectChains ==
    {<<Record(tp[1], s, p)>> \o Hops(n) \o <<Record(tp[2], ls, <<>>)>> :
        tp \in TargetPairs, s \in FirstStatuses, p \in PluginSets, ls \in LastStatuses,
        n \in 0..(MaxChain - 2)}

\* JSON documents that are not objects, or lack keys of a request record.
BrokenDocs ==
    {JO(<<>>), JI(5), JA(<<>>),
     JO(<< <<"target", JS("http://example.com")>> >>),
     JO(<< <<"target", JS("http://example.com")>>, <<"http_status", JI(200)>> >>)}

RichChains == SingleChains \cup RedirectChains \cup {<<d>> : d \in BrokenDocs}

\* The text of a log file: one document per line.
RECURSIVE ChainText(_)
ChainText(chain) ==
    IF chain = <<>> THEN "" ELSE Dumps(chain[1]) \o "\n" \o ChainText(Tail(chain))

Simple == Record("http://example.org", JI(200), <<Member("HTTPServer", "string", "nginx")>>)

Moved == Record("http://example.com", JI(301), <<Member("HTTPServer", "string", "Apache, PHP")>>)

Landed == Record("https://example.com/", JI(200), <<>>)

\* The texts of the files of a folder of several files: request chains, WhatWeb's
\* error lines, a chain followed by an error line, and text that is neither.
BasicTexts ==
    {ChainText(<<Simple>>),
     ChainText(<<Moved, Landed>>),
     "whatweb: Connection refused",
     "http://down.example.com ERROR: Timed out and then Connection refused\n",
     "http://a.example.com,b ERROR: SSL_connect returned=1\n",
     ChainText(<<Simple>>) \o "http://example.org ERROR: Hostname not known\n",
     "<log>\n</log>\n",
     "",
     "{}\n"}

\* Every JSON document of the modelled files, with its text.
JsonTable ==
    {<<Dumps(d), d>> :
        d \in {Simple, Moved, Landed} \cup UNION {{c[i] : i \in DOMAIN c} : c \in RichChains}}

----------------------------------------------------------------------------
(* parse_json_log_output                                                   *)

\* json.loads(line) succeeds.
IsJson(line) == \E e \in JsonTable : e[1] = line

\* json.loads(line)
JsonLoads(line) == (CHOOSE e \in JsonTable : e[1] = line)[2]

\* Lines 112-114: the text read, its trailing whitespace stripped.
ReadStripped(text) == RStrip(text, Whitespace)

\* Line 116 raises: some line of the file is not JSON.
SomeNotJson(lines) == \E i \in DOMAIN lines : ~IsJson(lines[i])

ParseFails(file_contents) == SomeNotJson(Split(file_contents, "\n"))

\* Line 116: the documents of the file, in file order.
LoadAll(lines) == [i \in DOMAIN lines |-> JsonLoads(lines[i])]

ParsedBlobs(file_contents) == LoadAll(Split(file_contents, "\n"))

\* Line 123
FailureTarget(file_contents) == Before(file_contents, " ")

\* Lines 124-133
FailureStatus(file_contents) ==
    IF Contains(file_contents, "Connection refused") THEN "Server Error"
    ELSE IF Contains(file_contents, "Hostname not known") THEN "Server Not Found"
    ELSE IF Contains(file_contents, "ERROR: SSL_connect") THEN "Server Error - SSL_connect"
    ELSE IF Contains(file_contents, "Timed out") THEN "Server Error - Timed Out"
    ELSE "Server Error - Catch All"

\* Lines 135-138: the line the failure path appends.
FailureLine(target, status) == target \o "," \o status \o "\n"

----------------------------------------------------------------------------
(* parse_and_extract_data and the main script                              *)

expected_keys ==
    <<"target", "status", "ip_address", "server", "powered_by", "redirects_to", "notes">>

\* Lines 241-243: the missing columns set to ''.
FillMissing(data) ==
    [key \in DOMAIN data \cup {expected_keys[i] : i \in DOMAIN expected_keys} |->
        IF key \in DOMAIN data THEN data[key] ELSE JS("")]

\* Line 246: the values of the row, in column order.
RowValues(data) == [i \in DOMAIN expected_keys |-> Str(data[expected_keys[i]])]

\* RowLine with the notes column left out of the format string.
RowLine_NoNotes(data) == Join(SubSeq(RowValues(data), 1, 6), ",") \o "\n"

\* Line 246: the row as written.
RowLine(data) == Join(RowValues(data), ",") \o "\n"

\* Line 257
Header == "Scope List,Status,IP Address,Server,Frameworks,Redirects To,Notes\n"

\* Line 91: the names glob.glob('%s/*.%s') matches.
Glob(files, format) ==
    {name \in DOMAIN files : EndsWith(name, "." \o format) /\ ~StartsWith(name, ".")}

\* The orders in which a directory listing may return a set of names.
Orderings(names) ==
    {order \in [1..Cardinality(names) -> names] :
        \A i, j \in DOMAIN order : i # j => order[i] # order[j]}

\* The stripped text of the file the loop is at.
CurrentContents == ReadStripped(folder[file_list[k + 1]])

\* Lines 134-138: the failure line is appended to the output file.
AppendFailure(target, status) ==
    /\ output' = output \o FailureLine(target, status)
    /\ written' = Append(written, [path |-> "failure", values |-> <<target, status>>])

\* Lines 245-246: the row is appended to the output file.
AppendRow(data) ==
    /\ extracted_data' = data
    /\ output' = output \o RowLine(data)
    /\ written' = Append(written, [path |-> "row", values |-> RowValues(data)])

\* Lines 90-94: the input folder is no directory, the run exits.
ExitNotDir ==
    /\ pc = "start"
    /\ ~is_dir
    /\ pc' = "exit"
    /\ UNCHANGED <<is_dir, folder, log_format, plugin_fields, file_list, k, output,
                   extracted_data, written>>

\* Lines 96-98: no file matches, the run exits.
ExitNoFiles ==
    /\ pc = "start"
    /\ is_dir
    /\ Glob(folder, log_format) = {}
    /\ pc' = "exit"
    /\ UNCHANGED <<is_dir, folder, log_format, plugin_fields, file_list, k, output,
                   extracted_data, written>>

\* Lines 252-257: the files are listed and the header is written.
Start ==
    /\ pc = "start"
    /\ is_dir
    /\ Glob(folder, log_format) # {}
    /\ \E order \in Orderings(Glob(folder, log_format)) : file_list' = order
    /\ output' = Header
    /\ pc' = "run"
    /\ UNCHANGED <<is_dir, folder, log_format, plugin_fields, k, extracted_data, written>>

\* parse_and_extract_data on a file that is not JSON throughout: lines 117-138
\* append the failure line, and line 237 skips the extraction.
ParseFailure ==
    /\ pc = "run"
    /\ k < Len(file_list)
    /\ ParseFails(CurrentContents)
    /\ AppendFailure(FailureTarget(CurrentContents), FailureStatus(CurrentContents))
    /\ k' = k + 1
    /\ UNCHANGED <<is_dir, folder, log_format, plugin_fields, file_list, extracted_data, pc>>

\* parse_and_extract_data on a file of JSON lines: lines 238-246 append the row.
ExtractAndWrite ==
    /\ pc = "run"
    /\ k < Len(file_list)
    /\ ~ParseFails(CurrentContents)
    /\ ~ExtractRaises(ParsedBlobs(CurrentContents))
    /\ AppendRow(FillMissing(extract_url_data_from_json(ParsedBlobs(CurrentContents),
                                                        plugin_fields)))
    /\ k' = k + 1
    /\ UNCHANGED <<is_dir, folder, log_format, plugin_fields, file_list, pc>>

\* parse_and_extract_data on a file of JSON lines whose first or last document
\* lacks what lines 163-181 read: the exception ends the run.
ExtractCrash ==
    /\ pc = "run"
    /\ k < Len(file_list)
    /\ ~ParseFails(CurrentContents)
    /\ ExtractRaises(ParsedBlobs(CurrentContents))
    /\ pc' = "crashed"
    /\ UNCHANGED <<is_dir, folder, log_format, plugin_fields, file_list, k, output,
                   extracted_data, written>>

\* Lines 260-261: the loop has taken every file.
Finish ==
    /\ pc = "run"
    /\ k = Len(file_list)
    /\ pc' = "done"
    /\ UNCHANGED <<is_dir, folder, log_format, plugin_fields, file_list, k, output,
                   extracted_data, written>>

----------------------------------------------------------------------------
(* The runs checked.                                                       *)

PluginFieldArgs ==
    {"HTTPServer, IP,Bogus", "RedirectLocation,X-Powered-By , PoweredBy"}

FileNames == {"a.json", "b.json", "c.xml"}

\* A folder of one log file holding any of the chains.
RichFolders == {("example.com.json" :> ChainText(c)) : c \in RichChains}

\* A folder of up to MaxFiles files.
BasicFolders ==
    UNION {[names -> BasicTexts] : names \in {n \in SUBSET FileNames : Cardinality(n) <= MaxFiles}}

EmptyFolder == [name \in {} |-> ""]

Init ==
    /\ \/ /\ is_dir = TRUE
          /\ folder \in RichFolders
          /\ log_format = "json"
          /\ plugin_fields \in PluginFieldArgs
       \/ /\ is_dir = TRUE
          /\ folder \in BasicFolders
          /\ log_format \in {"json", "xml"}
          /\ plugin_fields = "HTTPServer, IP,Bogus"
       \/ /\ is_dir = FALSE
          /\ folder = EmptyFolder
          /\ log_format \in {"json", "xml"}
          /\ plugin_fields = "HTTPServer, IP,Bogus"
    /\ file_list = <<>>
    /\ k = 0
    /\ output = ""
    /\ extracted_data = EmptyDict
    /\ written = <<>>
    /\ pc = "start"

Next ==
    \/ ExitNotDir
    \/ ExitNoFiles
    \/ Start
    \/ ParseFailure
    \/ ExtractAndWrite
    \/ ExtractCrash
    \/ Finish

Spec == Init /\ [][Next]_vars

----------------------------------------------------------------------------
(* What the properties below speak of.                                     *)

\* The newline-terminated lines of a text.
Lines(text) == SubSeq(Split(text, "\n"), 1, Len(Split(text, "\n")) - 1)

\* The lines of the output file after the header.
DataLines == Tail(Lines(output))

\* The number of comma-separated fields of a line.
FieldCount(line) == Len(Split(line, ","))

\* The stripped text of the i-th file taken.
ContentsOf(i) == ReadStripped(folder[file_list[i]])

\* The last file taken went through extract_url_data_from_json, so that
\* extracted_data and written[k] are those of its chain.
JustExtracted == k >= 1 /\ written[k].path = "row"

\* The chain of the last file taken.
LastChain == ParsedBlobs(ContentsOf(k))

\* The columns of the row written for the last file taken.
StatusColumn == written[k].values[2]
RedirectsToColumn == written[k].values[6]

\* The first record carries a truthy Parked-Domain string value.
IsParked(blob) ==
    FieldFound(blob, "Parked-Domain") /\ Truthy(FieldValue(blob, "Parked-Domain"))

\* The first record carries a truthy WWW-Authenticate module value.
IsAuth(blob) ==
    FieldFound(blob, "WWW-Authenticate") /\ Truthy(FieldValue(blob, "WWW-Authenticate"))

\* The decimal texts of the codes lo..hi.
Codes(lo, hi) == {IntStr(n) : n \in lo..hi}

FirstStatusText == Str(Get(LastChain[1], "http_status"))
LastStatusText == Str(Get(LastOf(LastChain), "http_status"))

----------------------------------------------------------------------------
(* C1 *)

\* C1: whenever the first record of the chain carries a truthy Parked-Domain
\* string value, the record returned has status 'Parked' and that value as its
\* notes, whatever else the first record carries (WWW-Authenticate included).
C1_ParkedTakesPrecedence ==
    (JustExtracted /\ IsParked(LastChain[1]))
        => /\ extracted_data["status"] = JS("Parked")
           /\ extracted_data["notes"] = FieldValue(LastChain[1], "Parked-Domain")

----------------------------------------------------------------------------
(* C2 *)

\* C2 as stated: a 2-record chain whose last record has http_status 404 gives
\* status 'Forbidden - 404', whatever plugins the first record carries.
C2_Original ==
    (JustExtracted /\ Len(LastChain) = 2 /\ LastStatusText = "404")
        => StatusColumn = "Forbidden - 404"

\* C2 amended: a 2-record chain whose last record has http_status 404 and whose
\* first record carries neither a truthy Parked-Domain string value nor a truthy
\* WWW-Authenticate module value gives status 'Forbidden - 404', whatever the
\* first record's http_status.
C2_ForbiddenUnlessParkedOrAuth ==
    (/\ JustExtracted
     /\ Len(LastChain) = 2
     /\ LastStatusText = "404"
     /\ ~IsParked(LastChain[1])
     /\ ~IsAuth(LastChain[1]))
        => /\ StatusColumn = "Forbidden - 404"
           /\ extracted_data["status"] = JS("Forbidden - 404")

\* A chain 200 -> 404 with no Parked-Domain and no WWW-Authenticate value has
\* been classified.
C2_Witness ==
    /\ JustExtracted
    /\ Len(LastChain) = 2
    /\ LastStatusText = "404"
    /\ FirstStatusText = "200"
    /\ ~IsParked(LastChain[1])
    /\ ~IsAuth(LastChain[1])
    /\ StatusColumn = "Forbidden - 404"

----------------------------------------------------------------------------
(* C3 *)

\* C3 as stated: a single-record chain whose http_status is a code in 200..299
\* gives status 'Valid'.
C3_Original ==
    (JustExtracted /\ Len(LastChain) = 1 /\ FirstStatusText \in Codes(200, 299))
        => StatusColumn = "Valid"

\* C3 amended: a single-record chain whose http_status is a code in 200..209
\* (integer or string) and whose record carries neither a truthy Parked-Domain
\* string value nor a truthy WWW-Authenticate module value gives status 'Valid'.
C3_ValidFor20x ==
    (/\ JustExtracted
     /\ Len(LastChain) = 1
     /\ FirstStatusText \in Codes(200, 209)
     /\ ~IsParked(LastChain[1])
     /\ ~IsAuth(LastChain[1]))
        => /\ StatusColumn = "Valid"
           /\ extracted_data["status"] = JS("Valid")

\* A single record with the string status "204" has been classified 'Valid'.
C3_Witness ==
    /\ JustExtracted
    /\ Len(LastChain) = 1
    /\ Get(LastChain[1], "http_status") = JS("204")
    /\ ~IsParked(LastChain[1])
    /\ ~IsAuth(LastChain[1])
    /\ StatusColumn = "Valid"

----------------------------------------------------------------------------
(* C4 *)

\* C4: for a 2-record chain 301 -> 200 whose last target, its trailing '/'
\* stripped, is the https form of the first target's domain, the row has status
\* 'Valid' and its redirects_to column is that stripped target, for every set of
\* requested plugin fields.  Stated for the chains whose first record carries no
\* truthy Parked-Domain or WWW-Authenticate value, which override the status.
C4_UpgradeRow ==
    (/\ JustExtracted
     /\ Len(LastChain) = 2
     /\ FirstStatusText = "301"
     /\ LastStatusText = "200"
     /\ IsHttpsUpgrade(RStrip(Get(LastChain[2], "target").v, {"/"}),
                       TldExtract(Get(LastChain[1], "target").v))
     /\ ~IsParked(LastChain[1])
     /\ ~IsAuth(LastChain[1]))
        => /\ StatusColumn = "Valid"
           /\ RedirectsToColumn = RStrip(Get(LastChain[2], "target").v, {"/"})

----------------------------------------------------------------------------
(* C5 *)

\* Every data line of the output has the column count of the path that wrote it.
ColumnCountsRight ==
    /\ Len(DataLines) = Len(written)
    /\ \A i \in DOMAIN written :
          FieldCount(DataLines[i]) = IF written[i].path = "row" THEN 7 ELSE 2

\* C5 as stated: every line after the header has exactly 7 comma-separated
\* fields if written for a file that parsed as JSON and exactly 2 if written on
\* the parse-failure path, for any target, plugin values and failure text.
C5_Original == pc \in {"run", "done", "crashed"} => ColumnCountsRight

\* No value written so far holds a comma or a line break.
ValuesClean ==
    \A i \in DOMAIN written : \A j \in DOMAIN written[i].values :
        ~Contains(written[i].values[j], ",") /\ ~Contains(written[i].values[j], "\n")

\* C5 amended: as long as no value written into a line (target, status, plugin
\* value, failure target) holds a comma or a line break, every line after the
\* header has exactly 7 comma-separated fields if written for a file that parsed
\* as JSON and exactly 2 if written on the parse-failure path.
C5_ColumnCountsWhenClean ==
    (pc \in {"run", "done", "crashed"} /\ ValuesClean) => ColumnCountsRight

\* A 7-column row and a 2-column failure line have both been written.
C5_Witness ==
    /\ Len(written) = 2
    /\ written[1].path = "row"
    /\ written[2].path = "failure"
    /\ ValuesClean
    /\ FieldCount(DataLines[1]) = 7
    /\ FieldCount(DataLines[2]) = 2

----------------------------------------------------------------------------
(* C6 *)

\* The first whitespace-delimited token of a text.
RECURSIVE UpToWhitespace(_)
UpToWhitespace(s) ==
    IF Len(s) = 0 \/ CharAt(s, 1) \in Whitespace THEN ""
    ELSE CharAt(s, 1) \o UpToWhitespace(SubSeq(s, 2, Len(s)))

FirstToken(text) == UpToWhitespace(LStrip(text, Whitespace))

\* The status the first matching substring selects.
StatusBySubstring(text) ==
    CASE Contains(text, "Connection refused") -> "Server Error"
      [] ~Contains(text, "Connection refused") /\ Contains(text, "Hostname not known")
            -> "Server Not Found"
      [] ~Contains(text, "Connection refused") /\ ~Contains(text, "Hostname not known")
         /\ Contains(text, "ERROR: SSL_connect")
            -> "Server Error - SSL_connect"
      [] ~Contains(text, "Connection refused") /\ ~Contains(text, "Hostname not known")
         /\ ~Contains(text, "ERROR: SSL_connect") /\ Contains(text, "Timed out")
            -> "Server Error - Timed Out"
      [] OTHER -> "Server Error - Catch All"

\* C6: a file with a line that is not JSON gets exactly one line 'target,status'
\* and no 7-column row: target is the first whitespace-delimited token of the
\* file's text and status is selected by the first matching substring.
C6_FailureLine ==
    \A i \in 1..k :
        ParseFails(ContentsOf(i))
            => /\ written[i].path = "failure"
               /\ Len(DataLines) = k
               /\ DataLines[i] = FirstToken(folder[file_list[i]]) \o ","
                                 \o StatusBySubstring(folder[file_list[i]])

----------------------------------------------------------------------------
(* C7 *)

\* C7: a run with log format 'xml' stops before the header or any row is
\* written, and processes no file.
C7_XmlRejected ==
    log_format = "xml" => (output = "" /\ k = 0 /\ pc \in {"start", "exit"})

----------------------------------------------------------------------------
(* C8 *)

\* The characters of file names, in code-point order.
NameAlphabet == ".0123456789abcdefghijklmnopqrstuvwxyz"

\* a sorts before b
RECURSIVE NameBefore(_, _)
NameBefore(a, b) ==
    IF Len(b) = 0 THEN FALSE
    ELSE IF Len(a) = 0 THEN TRUE
    ELSE IF CharAt(a, 1) = CharAt(b, 1)
    THEN NameBefore(SubSeq(a, 2, Len(a)), SubSeq(b, 2, Len(b)))
    ELSE Find(NameAlphabet, CharAt(a, 1)) < Find(NameAlphabet, CharAt(b, 1))

\* The names in filename-sorted order.
SortedNames(names) ==
    CHOOSE order \in Orderings(names) :
        \A i, j \in DOMAIN order : i < j => NameBefore(order[i], order[j])

\* The line a file contributes to the output.
LineOf(name) ==
    IF ParseFails(ReadStripped(folder[name]))
    THEN FailureLine(FailureTarget(ReadStripped(folder[name])),
                     FailureStatus(ReadStripped(folder[name])))
    ELSE RowLine(FillMissing(extract_url_data_from_json(
                     ParsedBlobs(ReadStripped(folder[name])), plugin_fields)))

RECURSIVE LinesOf(_)
LinesOf(order) == IF order = <<>> THEN "" ELSE LineOf(order[1]) \o LinesOf(Tail(order))

\* C8: the output of a finished run is the header followed by the lines of the
\* files in filename-sorted order, whatever order the directory listing returned
\* (so two runs over the same folder write the same file).
C8_RowsInFilenameOrder ==
    pc = "done" => output = Header \o LinesOf(SortedNames(Glob(folder, log_format)))

----------------------------------------------------------------------------
(* C9 *)

\* The statuses the chain's records allow.
StatusTemplates(chain) ==
    {"Valid", "Parked", "Auth Required",
     Str(Get(chain[1], "http_status")),
     "Redirect - " \o Str(Get(chain[1], "http_status"))}
    \cup {"Forbidden - " \o code :
            code \in {Str(Get(chain[1], "http_status")),
                      Str(Get(LastOf(chain), "http_status"))} \cap Codes(400, 409)}

\* C9: the status of the output record is 'Valid', 'Parked', 'Auth Required',
\* 'Forbidden - {code}' for a 40x code of the first or the last record,
\* 'Redirect - {first record's http_status}' or the first record's http_status
\* rendered as a string.
C9_StatusInClosedSet ==
    JustExtracted
        => /\ Str(extracted_data["status"]) \in StatusTemplates(LastChain)
           /\ StatusColumn = Str(extracted_data["status"])

\* A chain has been classified 'Redirect - 301'.
C9_Witness ==
    /\ JustExtracted
    /\ Len(LastChain) > 1
    /\ StatusColumn = "Redirect - 301"

----------------------------------------------------------------------------
(* C10 *)

\* C10: a run over n matching files takes every one of them: it stops only
\* after k = n files, whatever the files hold.
C10_RunTakesEveryFile ==
    pc \in {"done", "crashed"} => k = Len(file_list)

=============================================================================
